---- MODULE Spec2Model ----
(***************************************************************************)
(* Model of backend.py: the tiled sky-map reprojection endpoint            *)
(* (get_skymap_crop, get_apparent_coords) and the Astrometry.net session   *)
(* cache (get_session_key, upload_image).                                  *)
(*                                                                         *)
(* Numbers.  Python floats are modelled by a scaled-down floating-point    *)
(* format: an angle is an integer count of quanta; magnitudes below Ulp    *)
(* quanta are all representable, larger magnitudes only at multiples of    *)
(* Ulp (one grid step, 11.25 degrees).  FloatRound is round-to-nearest on  *)
(* that format.  The format has far fewer significant digits than          *)
(* binary64, so "below half the spacing of floats near 360" is one         *)
(* quantum here and about 2.8e-14 degrees in CPython; the arithmetic       *)
(* rules are the same.                                                     *)
(*                                                                         *)
(* Optional values.  A JSON field that is absent or null is the empty set, *)
(* a present value v is the singleton {v}.                                 *)
(***************************************************************************)
EXTENDS Integers, Sequences, FiniteSets, TLC

VARIABLES
  pc,            \* position of the get_skymap_crop handler
  data,          \* request.get_json(): the payload
  coords,        \* result of get_apparent_coords (optional)
  path,          \* which branch of get_apparent_coords ran
  half_fov,      \* <<half_fov_w, half_fov_h>> (optional)
  corners,       \* the four raw FOV corners
  needed_tiles,  \* set of <<row, col>>
  composite,     \* the stitched raster: bounding rectangle and pasted cells
  pixel,         \* one (arbitrary) pixel of the reprojected raster
  response,      \* the HTTP response (optional)
  raised,        \* where an exception was raised inside the try block
  API_KEY,       \* config.API_KEY (optional)
  session_key,   \* global session_key (optional)
  threads,       \* upload_image requests in flight
  logins         \* number of login requests sent to Astrometry.net

vars == <<pc, data, coords, path, half_fov, corners, needed_tiles, composite,
          pixel, response, raised, API_KEY, session_key, threads, logins>>

skyVars == <<pc, data, coords, path, half_fov, corners, needed_tiles,
             composite, pixel, response, raised>>

sessionVars == <<API_KEY, session_key, threads, logins>>

----------------------------------------------------------------------------
(* Floating point *)

\* Spacing of representable values at magnitudes of a grid step and above.
Ulp == 4

Abs(x) == IF x < 0 THEN -x ELSE x

Sign(x) == IF x < 0 THEN -1 ELSE IF x > 0 THEN 1 ELSE 0

\* Round-to-nearest into the representable values.
FloatRound(v) ==
  IF Abs(v) < Ulp THEN v
  ELSE LET m == Abs(v) % Ulp
           down == Abs(v) - m
       IN  Sign(v) * (IF 2 * m < Ulp THEN down ELSE down + Ulp)

Deg45 == 4 * Ulp
Deg90 == 8 * Ulp
Deg360 == 32 * Ulp

\* x % 360 on floats: fmod is exact, the sign fix-up "r += 360" is rounded.
PyMod360(x) == FloatRound(x % Deg360)

Max(a, b) == IF a >= b THEN a ELSE b
Min(a, b) == IF a <= b THEN a ELSE b

----------------------------------------------------------------------------
(* Optional values and Python truthiness *)

None == {}
Some(v) == {v}
Val(x) == CHOOSE v \in x : TRUE

\* bool(x) for x None or a number
Truthy(x) == x # None /\ x # Some(0)

----------------------------------------------------------------------------
(* Request payloads *)

FocalLengths == {None, Some(0), Some(-50), Some(14), Some(50), Some(200)}
PixelPitches == {None, Some(0), Some(5)}
SensorWidths == {None, Some(0), Some(-4000), Some(4000)}
SensorHeights == {None, Some(0), Some(2000), Some(4000)}

\* ra, dec of the payload, in quanta, on the 22.5 degree grid:
\* -45, 0, 45, 112.5, 337.5, 382.5 and -112.5, -67.5, 0, 22.5, 90, 112.5
RaInputs == {None} \cup {Some(k * 2 * Ulp) : k \in {-2, 0, 2, 5, 15, 17}}
DecInputs == {None} \cup {Some(k * 2 * Ulp) : k \in {-5, -3, 0, 1, 4, 5}}

\* target_name / longitude / latitude
Observers ==
  { [target_name |-> None,              longitude |-> None,    latitude |-> None],
    [target_name |-> Some("M31"),       longitude |-> Some(0), latitude |-> Some(0)],
    [target_name |-> Some("NoSuchObj"), longitude |-> Some(0), latitude |-> Some(0)],
    [target_name |-> Some("M31"),       longitude |-> None,    latitude |-> Some(0)] }

\* Names Sesame resolves, and the apparent positions the AltAz round trip
\* may return for them (it depends on Time.now()).
KnownTargets == {"M31"}
ApparentPositions == { [ra |-> 0, dec |-> 4 * Ulp], [ra |-> Ulp, dec |-> 4 * Ulp] }

Payloads ==
  { [focal_length |-> f, sensor_width_px |-> w, sensor_height_px |-> h,
     pixel_pitch |-> p, ra |-> a, dec |-> d,
     target_name |-> o.target_name, longitude |-> o.longitude,
     latitude |-> o.latitude] :
      f \in FocalLengths, w \in SensorWidths, h \in SensorHeights,
      p \in PixelPitches, a \in RaInputs, d \in DecInputs, o \in Observers }

----------------------------------------------------------------------------
(* get_apparent_coords *)

\* SkyCoord(ra=.., dec=..): Longitude wraps ra into [0, 360), Latitude
\* rejects a declination outside [-90, 90] with a ValueError.
SkyCoord(ra, dec) ==
  IF dec < -Deg90 \/ dec > Deg90 THEN None
  ELSE Some([ra |-> ra % Deg360, dec |-> dec])

\* Variant: a target_name, when given, wins over ra/dec.
GetApparentCoords_PreferName(d) ==
  IF d.ra # None /\ d.dec # None /\ d.target_name = None
  THEN { [ok |-> SkyCoord(Val(d.ra), Val(d.dec)) # None,
          coords |-> SkyCoord(Val(d.ra), Val(d.dec)), path |-> "explicit"] }
  ELSE IF d.longitude = None \/ d.latitude = None \/ d.target_name = None
          \/ Val(d.target_name) \notin KnownTargets
       THEN { [ok |-> FALSE, coords |-> None, path |-> "observer"] }
       ELSE { [ok |-> TRUE, coords |-> Some(c), path |-> "observer"] :
                c \in ApparentPositions }

\* The set of outcomes of get_apparent_coords(d): ok = FALSE is an exception.
GetApparentCoords(d) ==
  IF d.ra # None /\ d.dec # None
  THEN { [ok |-> SkyCoord(Val(d.ra), Val(d.dec)) # None,
          coords |-> SkyCoord(Val(d.ra), Val(d.dec)), path |-> "explicit"] }
  ELSE \* EarthLocation(lon, lat), then get_icrs_coordinates(target_name)
       IF d.longitude = None \/ d.latitude = None \/ d.target_name = None
          \/ Val(d.target_name) \notin KnownTargets
       THEN { [ok |-> FALSE, coords |-> None, path |-> "observer"] }
       ELSE { [ok |-> TRUE, coords |-> Some(c), path |-> "observer"] :
                c \in ApparentPositions }

----------------------------------------------------------------------------
(* Field of view *)

\* tan of 5.625, 16.875, ... , 84.375 degrees (odd multiples of half a grid
\* step), in hundredths.
TanTable == <<10, 30, 53, 82, 122, 187, 330, 1015>>

\* math.degrees(math.atan(num / den)) for num >= 0, den > 0, rounded to the
\* representable values: below half a grid step it is one quantum.
AtanDeg(num, den) ==
  LET steps == Cardinality({ i \in DOMAIN TanTable : 100 * num >= TanTable[i] * den })
  IN  IF num = 0 THEN 0 ELSE IF steps = 0 THEN 1 ELSE steps * Ulp

\* fov / 2 where fov = 2 * degrees(atan((pixel_pitch * px / 2000) / focal_length))
HalfFov(pixel_pitch, px, focal_length) ==
  Sign(pixel_pitch * px) * Sign(focal_length)
    * AtanDeg(Abs(pixel_pitch * px), 2000 * Abs(focal_length))

----------------------------------------------------------------------------
(* Tile selection *)

Corners(center_ra, center_dec, half_fov_w, half_fov_h) ==
  << <<FloatRound(center_ra - half_fov_w), FloatRound(center_dec + half_fov_h)>>,
     <<FloatRound(center_ra + half_fov_w), FloatRound(center_dec + half_fov_h)>>,
     <<FloatRound(center_ra - half_fov_w), FloatRound(center_dec - half_fov_h)>>,
     <<FloatRound(center_ra + half_fov_w), FloatRound(center_dec - half_fov_h)>> >>

WrapRa(ra) == PyMod360(ra)
ClampDec(dec) == Max(-Deg90, Min(Deg90, dec))

TileCol(ra) == WrapRa(ra) \div Deg45

TileRow(dec) ==
  LET d == ClampDec(dec)
  IN  IF d >= Deg45 THEN 0 ELSE IF d >= 0 THEN 1 ELSE IF d >= -Deg45 THEN 2 ELSE 3

NeededTiles(cs) == { <<TileRow(cs[i][2]), TileCol(cs[i][1])>> : i \in DOMAIN cs }

----------------------------------------------------------------------------
(* In-memory tile stitching *)

tile_width == 2048
tile_height == 2048

\* Cells whose file skymap_tile_{r}_{c}.jpg can be on disk, and the disk
\* states os.path.exists is answered from.
GridCells == (0..3) \X (0..7)
DiskStates == { GridCells, {}, { t \in GridCells : (t[1] + t[2]) % 2 = 0 } }

SetMin(S) == CHOOSE x \in S : \A y \in S : x <= y
SetMax(S) == CHOOSE x \in S : \A y \in S : x >= y

\* Variant: every cell of the rectangle whose file exists is pasted.
Pasted_IgnoreNeeded(needed, min_row, max_row, min_col, max_col, on_disk) ==
  { t \in (min_row..max_row) \X (min_col..max_col) : t \in on_disk }

\* The paste loop: the cells of the bounding rectangle that get a tile.
Pasted(needed, min_row, max_row, min_col, max_col, on_disk) ==
  { t \in (min_row..max_row) \X (min_col..max_col) : t \in needed /\ t \in on_disk }

Stitched(needed, on_disk) ==
  LET min_row == SetMin({ t[1] : t \in needed })
      max_row == SetMax({ t[1] : t \in needed })
      min_col == SetMin({ t[2] : t \in needed })
      max_col == SetMax({ t[2] : t \in needed })
  IN  [ min_row |-> min_row, max_row |-> max_row,
        min_col |-> min_col, max_col |-> max_col,
        rows |-> max_row - min_row + 1, cols |-> max_col - min_col + 1,
        width |-> (max_col - min_col + 1) * tile_width,
        height |-> (max_row - min_row + 1) * tile_height,
        on_disk |-> on_disk,
        pasted |-> Pasted(needed, min_row, max_row, min_col, max_col, on_disk) ]

\* Offset of the block composite_image.paste gives cell t: <<x, y>>, y counted
\* from the top of the image, which is row 0 of np.array(composite_image).
PasteOffset(cmp, t) ==
  << (t[2] - cmp.min_col) * tile_width, (t[1] - cmp.min_row) * tile_height >>

----------------------------------------------------------------------------
(* WCS of the stitched composite (plate carree, linear in RA and Dec) *)

dec_centers == << 6 * Ulp, 2 * Ulp, -2 * Ulp, -6 * Ulp >>

RECURSIVE SumDecCenters(_, _)
SumDecCenters(lo, hi) ==
  IF lo > hi THEN 0 ELSE dec_centers[lo + 1] + SumDecCenters(lo + 1, hi)

stitched_center_ra(cmp) == cmp.min_col * Deg45 + (cmp.cols * Deg45) \div 2
stitched_center_dec(cmp) == SumDecCenters(cmp.min_row, cmp.max_row) \div cmp.rows

\* World coordinate of a pixel edge.  x, y count pixel edges from array index
\* 0; crpix = (n + 1) / 2 in 1-based pixel centres, so an edge is
\* (x - n / 2) pixels from the reference pixel.  cdelt = -45/2048, +45/2048.
WorldRa(cmp, x) ==
  stitched_center_ra(cmp) - (Deg45 * (2 * x - cmp.width)) \div (2 * tile_width)
WorldDec(cmp, y) ==
  stitched_center_dec(cmp) + (Deg45 * (2 * y - cmp.height)) \div (2 * tile_height)

----------------------------------------------------------------------------
(* Reprojection of one output pixel *)

\* A sample is a float in [0, 255] counted in halves, or NaN.
NaN == {}
SourceSamples == {0, 255, 510}

\* reproject_interp at one output pixel: NaN in all channels when the pixel's
\* sky position is outside the composite, else an interpolated sample per
\* channel.
Interpolated ==
  { <<NaN, NaN, NaN>> } \cup
  { <<Some(r), Some(g), Some(b)>> : r \in SourceSamples, g \in {0, 255}, b \in {0, 510} }

\* Variant: NaN reaches the cast, which may give any byte.
NanToNum_Skip(x) == IF x = NaN THEN -1 ELSE Val(x)
\* np.nan_to_num
NanToNum(x) == IF x = NaN THEN 0 ELSE Val(x)

\* .astype(np.uint8) of a sample counted in halves: truncate, wrap to 8 bits
AsUint8(x) == (x \div 2) % 256

----------------------------------------------------------------------------
(* get_skymap_crop *)

MissingParameters ==
  Some([status |-> 400, error |-> "Missing required camera parameters."])
InternalError ==
  Some([status |-> 500,
        error |-> "An internal error occurred during image processing. Check server logs."])
ImageResponse == Some([status |-> 200, error |-> ""])

\* all([focal_length, sensor_width_px, sensor_height_px, pixel_pitch])
AllCameraParameters(d) ==
  /\ Truthy(d.focal_length)
  /\ Truthy(d.sensor_width_px)
  /\ Truthy(d.sensor_height_px)
  /\ Truthy(d.pixel_pitch)

Validate ==
  /\ pc = "validate"
  /\ IF ~AllCameraParameters(data)
     THEN /\ response' = MissingParameters
          /\ pc' = "done"
     ELSE /\ pc' = "resolve"
          /\ UNCHANGED response
  /\ UNCHANGED <<data, coords, path, half_fov, corners, needed_tiles,
                 composite, pixel, raised>>
  /\ UNCHANGED sessionVars

Resolve ==
  /\ pc = "resolve"
  /\ \E out \in GetApparentCoords(data) :
       /\ path' = out.path
       /\ IF out.ok
          THEN /\ coords' = out.coords
               /\ pc' = "tiles"
               /\ UNCHANGED <<response, raised>>
          ELSE /\ raised' = "get_apparent_coords"
               /\ response' = InternalError
               /\ pc' = "done"
               /\ UNCHANGED coords
  /\ UNCHANGED <<data, half_fov, corners, needed_tiles, composite, pixel>>
  /\ UNCHANGED sessionVars

\* FOV, corners and required tiles.  needed_tiles always holds the four
\* corners' cells, so the "if not needed_tiles" return is never taken.
SelectTiles ==
  /\ pc = "tiles"
  /\ LET hw == HalfFov(Val(data.pixel_pitch), Val(data.sensor_width_px),
                       Val(data.focal_length))
         hh == HalfFov(Val(data.pixel_pitch), Val(data.sensor_height_px),
                       Val(data.focal_length))
         cs == Corners(Val(coords).ra, Val(coords).dec, hw, hh)
     IN  /\ half_fov' = Some(<<hw, hh>>)
         /\ corners' = cs
         /\ needed_tiles' = NeededTiles(cs)
  /\ pc' = "stitch"
  /\ UNCHANGED <<data, coords, path, composite, pixel, response, raised>>
  /\ UNCHANGED sessionVars

Stitch ==
  /\ pc = "stitch"
  /\ \E on_disk \in DiskStates :
       composite' = Some(Stitched(needed_tiles, on_disk))
  /\ pc' = "reproject"
  /\ UNCHANGED <<data, coords, path, half_fov, corners, needed_tiles, pixel,
                 response, raised>>
  /\ UNCHANGED sessionVars

Reproject ==
  /\ pc = "reproject"
  /\ IF Val(data.sensor_width_px) < 0 \/ Val(data.sensor_height_px) < 0
     THEN \* shape_out with a negative dimension
          /\ raised' = "reproject"
          /\ response' = InternalError
          /\ UNCHANGED pixel
     ELSE /\ \E raw \in Interpolated :
               pixel' = Some([ raw |-> raw,
                               out |-> [ch \in 1..3 |-> AsUint8(NanToNum(raw[ch]))] ])
          /\ response' = ImageResponse
          /\ UNCHANGED raised
  /\ pc' = "done"
  /\ UNCHANGED <<data, coords, path, half_fov, corners, needed_tiles, composite>>
  /\ UNCHANGED sessionVars

SkyIdle ==
  /\ coords = None /\ path = "none" /\ half_fov = None /\ corners = <<>>
  /\ needed_tiles = {} /\ composite = None /\ pixel = None
  /\ response = None /\ raised = "none"

Init ==
  /\ pc = "validate"
  /\ data \in Payloads
  /\ SkyIdle
  /\ API_KEY = None /\ session_key = None /\ threads = <<>> /\ logins = 0

Next == Validate \/ Resolve \/ SelectTiles \/ Stitch \/ Reproject

Spec == Init /\ [][Next]_vars

----------------------------------------------------------------------------
(* get_session_key / upload_image *)

NumThreads == 2
MaxCalls == 2

ApiKeys == {None, Some("YOUR_API_KEY_HERE"), Some("k3y")}

\* What the login request can come back with: a transport or HTTP error
\* (raise_for_status), or a JSON body with a status and maybe a session
\* string (data['session'] of a body without one is a KeyError).
LoginResponses ==
  { [http_ok |-> FALSE, status |-> "",        session |-> None],
    [http_ok |-> TRUE,  status |-> "error",   session |-> None],
    [http_ok |-> TRUE,  status |-> "error",   session |-> Some("s2")],
    [http_ok |-> TRUE,  status |-> "success", session |-> None],
    [http_ok |-> TRUE,  status |-> "success", session |-> Some("")],
    [http_ok |-> TRUE,  status |-> "success", session |-> Some("s1")],
    [http_ok |-> TRUE,  status |-> "success", session |-> Some("s2")] }

NoResponse == [http_ok |-> FALSE, status |-> "none", session |-> None]

\* bool(x) for x None or a string
TruthyStr(x) == x # None /\ x # Some("")

IdleThread == [pc |-> "idle", calls |-> 0, resp |-> NoResponse, ret |-> None]

\* get_session_key up to the login request: the cache test, the API_KEY
\* test, and requests.post being sent.
StartCall(t) ==
  /\ threads[t].pc = "idle"
  /\ threads[t].calls < MaxCalls
  /\ IF TruthyStr(session_key)
     THEN /\ threads' = [threads EXCEPT ![t].pc = "return",
                                        ![t].calls = @ + 1,
                                        ![t].resp = NoResponse,
                                        ![t].ret = None]
          /\ UNCHANGED logins
     ELSE IF ~TruthyStr(API_KEY) \/ API_KEY = Some("YOUR_API_KEY_HERE")
     THEN /\ threads' = [threads EXCEPT ![t].pc = "raised",
                                        ![t].calls = @ + 1,
                                        ![t].resp = NoResponse,
                                        ![t].ret = None]
          /\ UNCHANGED logins
     ELSE /\ threads' = [threads EXCEPT ![t].pc = "await",
                                        ![t].calls = @ + 1,
                                        ![t].resp = NoResponse,
                                        ![t].ret = None]
          /\ logins' = logins + 1
  /\ UNCHANGED <<API_KEY, session_key>>
  /\ UNCHANGED skyVars

\* Variant: the session is stored without looking at the status.
FinishLogin_StoreAlways(t) ==
  /\ threads[t].pc = "await"
  /\ \E resp \in LoginResponses :
       IF resp.http_ok /\ resp.session # None
       THEN /\ session_key' = resp.session
            /\ threads' = [threads EXCEPT ![t].pc = "return", ![t].resp = resp]
       ELSE /\ threads' = [threads EXCEPT ![t].pc = "raised", ![t].resp = resp]
            /\ UNCHANGED session_key
  /\ UNCHANGED <<API_KEY, logins>>
  /\ UNCHANGED skyVars

\* The login response arrives: raise_for_status, the status test, and the
\* assignment to the global.
FinishLogin(t) ==
  /\ threads[t].pc = "await"
  /\ \E resp \in LoginResponses :
       IF resp.http_ok /\ resp.status = "success" /\ resp.session # None
       THEN /\ session_key' = resp.session
            /\ threads' = [threads EXCEPT ![t].pc = "return", ![t].resp = resp]
       ELSE /\ threads' = [threads EXCEPT ![t].pc = "raised", ![t].resp = resp]
            /\ UNCHANGED session_key
  /\ UNCHANGED <<API_KEY, logins>>
  /\ UNCHANGED skyVars

\* "return session_key": both return statements read the global.
ReturnKey(t) ==
  /\ threads[t].pc = "return"
  /\ threads' = [threads EXCEPT ![t].pc = "returned", ![t].ret = session_key]
  /\ UNCHANGED <<API_KEY, session_key, logins>>
  /\ UNCHANGED skyVars

\* upload_image ends (with the sub_id, or with the 500 made from the
\* exception) and the worker takes the next upload request.
EndUpload(t) ==
  /\ threads[t].pc \in {"returned", "raised"}
  /\ threads[t].calls < MaxCalls
  /\ threads' = [threads EXCEPT ![t].pc = "idle"]
  /\ UNCHANGED <<API_KEY, session_key, logins>>
  /\ UNCHANGED skyVars

SessionInit ==
  /\ pc = "done"
  /\ data = CHOOSE d \in Payloads : TRUE
  /\ SkyIdle
  /\ API_KEY \in ApiKeys
  /\ session_key = None
  /\ threads = [t \in 1..NumThreads |-> IdleThread]
  /\ logins = 0

SessionNext ==
  \E t \in 1..NumThreads :
    StartCall(t) \/ FinishLogin(t) \/ ReturnKey(t) \/ EndUpload(t)

SessionSpec == SessionInit /\ [][SessionNext]_vars

----------------------------------------------------------------------------
(* Claims about get_skymap_crop, checked under Spec *)

CameraFields == {"focal_length", "sensor_width_px", "sensor_height_px", "pixel_pitch"}

CameraInvalid(d) ==
  \E f \in CameraFields : d[f] = None \/ Val(d[f]) <= 0

\* C1: a request in which a camera parameter is absent, zero or negative is
\* rejected with the validation failure, and nothing after validation
\* (coordinate resolution, tile selection, stitching, output) runs for it.
C1_InvalidCameraRejected ==
  (CameraInvalid(data) /\ pc # "validate") =>
     /\ pc = "done"
     /\ response = MissingParameters
     /\ path = "none" /\ coords = None /\ needed_tiles = {}
     /\ composite = None /\ pixel = None

ExplicitGiven(d) == d.ra # None /\ d.dec # None

TilesSelected == pc \in {"stitch", "reproject", "done"} /\ half_fov # None

DecBand(dec) ==
  IF dec >= Deg45 THEN 0 ELSE IF dec >= 0 THEN 1 ELSE IF dec >= -Deg45 THEN 2 ELSE 3

\* C3: (for requests whose camera parameters are all positive) every FOV
\* corner is looked up with ra mod 360 in [0, 360) and the
\* clamped declination, and yields one cell: col = floor((ra mod 360) / 45)
\* in 0..7, row in 0..3 by the declination bands.
C3_CornerCells ==
  (TilesSelected /\ ~CameraInvalid(data)) =>
     /\ needed_tiles \subseteq GridCells
     /\ \A i \in DOMAIN corners :
          /\ WrapRa(corners[i][1]) >= 0 /\ WrapRa(corners[i][1]) < Deg360
          /\ ClampDec(corners[i][2]) >= -Deg90 /\ ClampDec(corners[i][2]) <= Deg90
          /\ << DecBand(ClampDec(corners[i][2])),
                (corners[i][1] % Deg360) \div Deg45 >> \in needed_tiles

Rect(cmp) == (cmp.min_row .. cmp.max_row) \X (cmp.min_col .. cmp.max_col)

\* C4: a cell of the bounding rectangle is pasted iff it is a corner cell
\* and its file is on disk, every other cell stays blank, and a request that
\* got as far as stitching with a positive output shape returns the image
\* whatever is on disk.
C4_PasteIffNeededAndOnDisk ==
  composite # None =>
     LET cmp == Val(composite)
     IN  /\ cmp.pasted \subseteq Rect(cmp)
         /\ \A t \in Rect(cmp) :
              t \in cmp.pasted <=> (t \in needed_tiles /\ t \in cmp.on_disk)
         /\ pc \in {"reproject", "done"}
         /\ (pc = "done" /\ Val(data.sensor_width_px) > 0
                         /\ Val(data.sensor_height_px) > 0)
              => response = ImageResponse

C4_Witness ==
  /\ pc = "done" /\ response = ImageResponse /\ composite # None
  /\ \E t \in needed_tiles : t \notin Val(composite).on_disk
  /\ \E t \in Rect(Val(composite)) : t \notin needed_tiles /\ t \in Val(composite).on_disk
  /\ Val(composite).pasted # {}

\* The kind of failure a response tells the caller.
ResponseKind(r) ==
  IF r = MissingParameters THEN "ValidationError"
  ELSE IF r = InternalError THEN "InternalError"
  ELSE "none"

\* The kind of failure that happened.
FailureKind ==
  IF raised = "get_apparent_coords" THEN "CoordinateResolutionError"
  ELSE IF raised = "reproject" THEN "InternalError"
  ELSE IF ~AllCameraParameters(data) THEN "ValidationError"
  ELSE "none"

\* C5: every failure of a reprojection request reaches the caller as its own
\* kind: validation, coordinate resolution and internal failures are told
\* apart, none is reported as another.
C5_FailureKindsDistinct ==
  pc = "done" => ResponseKind(response) = FailureKind

\* C6: in the raster of a successful request every sample is an integer in
\* 0..255, and a pixel the resampler left undefined (NaN) is 0 in all three
\* channels.
C6_SamplesAreBytesAndFillIsZero ==
  /\ response = ImageResponse => pixel # None
  /\ pixel # None =>
       /\ \A ch \in 1..3 : Val(pixel).out[ch] \in 0..255
       /\ Val(pixel).raw = <<NaN, NaN, NaN>> => Val(pixel).out = [ch \in 1..3 |-> 0]
       /\ \A ch \in 1..3 :
            Val(pixel).raw[ch] # NaN =>
               /\ 2 * Val(pixel).out[ch] <= Val(Val(pixel).raw[ch])
               /\ Val(Val(pixel).raw[ch]) < 2 * Val(pixel).out[ch] + 2

C6_Witness ==
  /\ response = ImageResponse /\ pixel # None
  /\ Val(pixel).raw = <<NaN, NaN, NaN>>

\* Raw RA of the left-most and right-most corners.
RaLo == Min(corners[1][1], corners[2][1])
RaHi == Max(corners[1][1], corners[2][1])
DecLo == ClampDec(Min(corners[1][2], corners[3][2]))
DecHi == ClampDec(Max(corners[1][2], corners[3][2]))

StraddlesSeam == (RaLo < 0 /\ RaHi >= 0) \/ (RaLo < Deg360 /\ RaHi >= Deg360)

\* C7: (for requests whose camera parameters are all positive) the column
\* span is min..max of the corner columns; when a FOV narrower
\* than 45 degrees has its left and right corners on opposite sides of the
\* RA seam, the corner columns are 7 and 0 and the rectangle covers columns
\* 0..7, width 8 * 2048.
C7_SeamSpansAllColumns ==
  (composite # None /\ ~CameraInvalid(data)) =>
     LET cmp == Val(composite)
     IN  /\ cmp.min_col = SetMin({ t[2] : t \in needed_tiles })
         /\ cmp.max_col = SetMax({ t[2] : t \in needed_tiles })
         /\ (StraddlesSeam /\ RaHi - RaLo < Deg45) =>
               /\ { t[2] : t \in needed_tiles } = {0, 7}
               /\ cmp.min_col = 0 /\ cmp.max_col = 7 /\ cmp.cols = 8
               /\ cmp.width = 8 * tile_width

DecBandLo(r) == dec_centers[r + 1] - 2 * Ulp

\* C8: (for requests whose camera parameters are all positive) every pasted
\* cell (r, c) occupies the pixel block that the composite's
\* projection maps to the cell's own RA band [45c, 45c + 45] and its own
\* declination band.
C8_PasteMatchesProjection ==
  (composite # None /\ ~CameraInvalid(data)) =>
     LET cmp == Val(composite)
     IN  \A t \in cmp.pasted :
           LET off == PasteOffset(cmp, t)
           IN  /\ { WorldRa(cmp, off[1]), WorldRa(cmp, off[1] + tile_width) }
                    = { t[2] * Deg45, (t[2] + 1) * Deg45 }
               /\ { WorldDec(cmp, off[2]), WorldDec(cmp, off[2] + tile_height) }
                    = { DecBandLo(t[1]), DecBandLo(t[1]) + Deg45 }

\* Cell t's RA band and declination band both meet the FOV rectangle.
MeetsFov(t) ==
  /\ t[2] * Deg45 <= RaHi /\ RaLo < (t[2] + 1) * Deg45
  /\ DecBandLo(t[1]) <= DecHi
  /\ (DecLo < DecBandLo(t[1]) + Deg45 \/ (t[1] = 0 /\ DecLo = Deg90))

\* C9: for a request whose camera parameters are all positive and whose FOV
\* does not straddle the RA seam, every grid cell whose
\* bands meet the FOV rectangle is in the required-tile set.
C9_FovCovered ==
  (TilesSelected /\ ~CameraInvalid(data) /\ ~StraddlesSeam) =>
     \A t \in GridCells : MeetsFov(t) => t \in needed_tiles

----------------------------------------------------------------------------
(* Claims about the session cache, checked under SessionSpec *)

Threads == DOMAIN threads

WrittenFromSuccess ==
  session_key' # session_key =>
     \E t \in Threads :
        /\ threads[t].pc = "await"
        /\ threads'[t].resp.http_ok
        /\ threads'[t].resp.status = "success"
        /\ session_key' = threads'[t].resp.session

Fails(t) == threads[t].pc # "raised" /\ threads'[t].pc = "raised"
Starts(t) == threads[t].pc = "idle" /\ threads'[t].pc # "idle"
Returns(t) == threads[t].pc = "return" /\ threads'[t].pc = "returned"

RetriesWhenUnset ==
  \A t \in Threads :
     (Starts(t) /\ ~TruthyStr(session_key) /\ API_KEY = Some("k3y"))
        => threads'[t].pc = "await" /\ logins' = logins + 1

ReturnsGlobal ==
  \A t \in Threads :
     Returns(t) => threads'[t].ret = session_key /\ session_key' = session_key

\* C10 as stated: session_key is written only with the session of a
\* 'success' login response; a failed attempt raises and leaves session_key
\* unset; a call that starts once session_key is set (not None) returns the
\* cached key, sends no login and does not change session_key.
C10_SessionCacheAsStated ==
  [][ /\ WrittenFromSuccess
      /\ \A t \in Threads : Fails(t) => session_key' = None
      /\ RetriesWhenUnset
      /\ \A t \in Threads :
           (Starts(t) /\ session_key # None)
              => /\ threads'[t].pc = "return"
                 /\ logins' = logins /\ session_key' = session_key
      /\ ReturnsGlobal ]_vars

\* C10 amended: session_key is written only with the session of a 'success'
\* login response; a failed attempt raises and leaves session_key as it was;
\* while session_key is empty (None or "") a call with a configured API key
\* sends a login; a call that starts once session_key holds a non-empty
\* string returns the value of session_key, sends no login and does not
\* change session_key.
C10_SessionCache ==
  [][ /\ WrittenFromSuccess
      /\ \A t \in Threads : Fails(t) => session_key' = session_key
      /\ RetriesWhenUnset
      /\ \A t \in Threads :
           (Starts(t) /\ TruthyStr(session_key))
              => /\ threads'[t].pc = "return"
                 /\ logins' = logins /\ session_key' = session_key
      /\ ReturnsGlobal ]_vars

C10_Witness ==
  /\ TruthyStr(session_key)
  /\ \E t \in Threads :
        /\ threads[t].pc = "returned"
        /\ threads[t].resp = NoResponse
        /\ threads[t].ret = session_key
  /\ \E u \in Threads :
        /\ threads[u].pc = "raised"
        /\ threads[u].resp.http_ok

====
